---- MODULE Spec2Model ----
(***************************************************************************)
(* A model of the BraTS 2017 patch pipeline: the test script              *)
(* (src/test_brats2017.py: main, test_network, transfer_learning,         *)
(* create_new_network, get_best_roi, check_dsc) and the reconstruction    *)
(* loop of the cross-validation script (src/train_test_brats2017.py).     *)
(*                                                                         *)
(* Volumes are one-dimensional rows of NVox voxels, two voxels being      *)
(* connected when their indices differ by one.  Weights are tokens        *)
(* [base, k, v]: the weights that layer k of network `base` had when it   *)
(* was built or loaded, after v fitting steps.  Files are a map from a    *)
(* path (a string, built as the scripts build it) to a content.           *)
(***************************************************************************)
EXTENDS Integers, Sequences, FiniteSets, TLC

VARIABLES
    pc,             \* position of main() (or of one call of test_network)
    pidx,           \* main: index i of the patient being processed (352)
    env,            \* the inputs of the run: options, input volumes, models on disk
    files,          \* the result and cache files on disk
    net_orig,       \* main: the primary model (361, 373)
    net_new,        \* main: the secondary (domain) model (382, 417)
    image_o,        \* main: result of the original network (358, 367)
    image_r,        \* main: result of the ROI network (386)
    image_d,        \* main: result of the adapted network (371, 433)
    adapt,          \* main: locals of the adaptation block (387-424)
    tl,             \* transfer_learning: its locals (89-141) and loop counter
    fitlog,         \* history: the fit calls of the running transfer_learning
    dsc_results_o,  \* main: per-patient DSC lists, original (347)
    dsc_results_d,  \* main: per-patient DSC lists, domain (348)
    final_dsc,      \* main: the aggregate printed at 450-453
    lastCall,       \* history: what the last test_network call did
    trace           \* history: per patient, how its processing ended

vars == <<pc, pidx, env, files, net_orig, net_new, image_o, image_r, image_d,
          adapt, tl, fitlog, dsc_results_o, dsc_results_d, final_dsc,
          lastCall, trace>>

----------------------------------------------------------------------------
(* Bounds of the model and constants of the program.                       *)

NVox == 3            \* voxels of a volume
NumPatients == 2     \* test patients
NumTrain == 2        \* training cases offered to get_best_roi
MaxEpochs == 2       \* options['epochs'] ranges over 0..MaxEpochs

conv_blocks == 5     \* options['conv_blocks'], default
num_classes == 5     \* classes of the last head
net_epochs == 1      \* options['net_epochs'], default
down_factor == 4     \* options['down_factor'], default
NoneV == "None"

Voxels == 1..NVox
ZeroVolume == [v \in Voxels |-> 0]

Min2(a, b) == IF a <= b THEN a ELSE b
Max2(a, b) == IF a >= b THEN a ELSE b

RECURSIVE SetToSeq(_)
(* The elements of a set of integers in ascending order. *)
SetToSeq(S) ==
    IF S = {} THEN <<>>
    ELSE LET m == CHOOSE x \in S : \A y \in S : x <= y
         IN <<m>> \o SetToSeq(S \ {m})

SeqRange(s) == {s[k] : k \in DOMAIN s}

----------------------------------------------------------------------------
(* Strings: decimal formatting, and names as character sequences so that   *)
(* 'conv' in l.name and int(l.name[7:]) are computed, not assumed.         *)

DigitStr == <<"0", "1", "2", "3", "4", "5", "6", "7", "8", "9">>

RECURSIVE FormatInt(_)
(* '%d' % n for n >= 0, as a TLC string. *)
FormatInt(n) ==
    IF n < 10 THEN DigitStr[n + 1]
    ELSE FormatInt(n \div 10) \o DigitStr[(n % 10) + 1]

RECURSIVE IntChars(_)
(* The decimal digits of n >= 0 as a sequence of characters. *)
IntChars(n) ==
    IF n < 10 THEN <<DigitStr[n + 1]>>
    ELSE IntChars(n \div 10) \o <<DigitStr[(n % 10) + 1]>>

DigitVal(c) == (CHOOSE d \in 1..10 : DigitStr[d] = c) - 1

RECURSIVE ParseInt(_)
(* int(s) for a sequence of digit characters. *)
ParseInt(s) ==
    IF Len(s) = 0 THEN 0
    ELSE 10 * ParseInt(SubSeq(s, 1, Len(s) - 1)) + DigitVal(s[Len(s)])

(* sub in s, for character sequences *)
Contains(sub, s) ==
    \E k \in 1..(Len(s) - Len(sub) + 1) : SubSeq(s, k, k + Len(sub) - 1) = sub

(* s[7:] *)
From7(s) == SubSeq(s, 8, Len(s))

CONV == <<"c", "o", "n", "v">>
AutoConvName(n) == <<"c", "o", "n", "v", "3", "d", "_">> \o IntChars(n)
AutoDenseName(n) == <<"d", "e", "n", "s", "e", "_">> \o IntChars(n)
Name_flair == <<"f", "l", "a", "i", "r">>
Name_t2 == <<"t", "2">>
Name_t1 == <<"t", "1">>
Name_tumor == <<"t", "u", "m", "o", "r">>
Name_core == <<"c", "o", "r", "e">>
Name_enhancing == <<"e", "n", "h", "a", "n", "c", "i", "n", "g">>
Name_input == <<"m", "e", "r", "g", "e", "d", "_", "i", "n", "p", "u", "t", "s">>
AutoOtherName(kind, n) == kind \o <<"_">> \o IntChars(n)
Name_dropout == <<"d", "r", "o", "p", "o", "u", "t">>
Name_concat == <<"c", "o", "n", "c", "a", "t", "e", "n", "a", "t", "e">>
Name_flatten == <<"f", "l", "a", "t", "t", "e", "n">>

----------------------------------------------------------------------------
(* Region cleaning (utils.get_biggest_region, not part of src/): the       *)
(* largest connected component is kept, per label, or of the foreground    *)
(* in ROI mode.                                                            *)

Component(S, v) == {u \in S : \A w \in Min2(u, v)..Max2(u, v) : w \in S}

Components(S) == {Component(S, v) : v \in S}

(* the variant keeps the first component, whatever its size *)
Largest_first(S) ==
    IF S = {} THEN {}
    ELSE Component(S, CHOOSE v \in S : \A u \in S : v <= u)

(* The largest component of S; of several largest, the first in voxel order. *)
Largest(S) ==
    IF S = {} THEN {}
    ELSE LET cs == Components(S)
             big == {c \in cs : \A d \in cs : Cardinality(c) >= Cardinality(d)}
             first == CHOOSE v \in UNION big : \A u \in UNION big : v <= u
         IN CHOOSE c \in big : first \in c

get_biggest_region(image, is_roi) ==
    IF is_roi
    THEN LET keep == Largest({v \in DOMAIN image : image[v] # 0})
         IN [v \in DOMAIN image |-> IF v \in keep THEN image[v] ELSE 0]
    ELSE [v \in DOMAIN image |->
            IF image[v] # 0 /\ v \in Largest({u \in DOMAIN image : image[u] = image[v]})
            THEN image[v] ELSE 0]

----------------------------------------------------------------------------
(* Networks.  A network is [kind, layers, compiled]: its layers in model   *)
(* order (net.layers), each [name, cls, w, trainable], and the set of      *)
(* layer positions that were trainable when it was last compiled, which    *)
(* are the layers a fit updates.                                           *)

NoWeights == [base |-> "none", k |-> 0, v |-> 0]
Layer(name, cls, w) == [name |-> name, cls |-> cls, w |-> w, trainable |-> TRUE]

WithTokens(ls, base) ==
    [k \in DOMAIN ls |->
        IF ls[k].cls = "Other" THEN ls[k]
        ELSE [ls[k] EXCEPT !.w = [base |-> base, k |-> k, v |-> 0]]]

(* The three-branch network of src/train_test_brats2017.py:170-253: one
   Conv3D per branch and block, named by Keras in creation order, then the
   Dense classifier layers and the three named heads.  The weightless layers
   are represented by one of each kind. *)
PrimaryLayers ==
    WithTokens(
        <<Layer(Name_input, "Other", NoWeights)>>
        \o [n \in 1..(3 * conv_blocks) |-> Layer(AutoConvName(n), "Conv3D", NoWeights)]
        \o <<Layer(AutoOtherName(Name_dropout, 1), "Other", NoWeights),
             Layer(AutoOtherName(Name_flatten, 1), "Other", NoWeights),
             Layer(AutoDenseName(1), "Dense", NoWeights),
             Layer(AutoOtherName(Name_concat, 1), "Other", NoWeights),
             Layer(AutoDenseName(2), "Dense", NoWeights),
             Layer(AutoDenseName(3), "Dense", NoWeights),
             Layer(Name_tumor, "Dense", NoWeights),
             Layer(Name_core, "Dense", NoWeights),
             Layer(Name_enhancing, "Dense", NoWeights)>>,
        "orig")

AllLayers(ls) == {k \in DOMAIN ls : ls[k].trainable}

(* keras.models.load_model(net_name) (361, 373) *)
LoadPrimary ==
    [kind |-> "orig", layers |-> PrimaryLayers, compiled |-> AllLayers(PrimaryLayers)]

(* create_new_network (238-297): conv_blocks - 1 unnamed Conv3D per branch,
   named by Keras with the next free numbers (uid is the count of Conv3D
   layers this process has named so far), and a last Conv3D per branch named
   'flair', 't2', 't1'; compiled with every layer trainable. *)
create_new_network(uid) ==
    LET ls == WithTokens(
                <<Layer(Name_input, "Other", NoWeights)>>
                \o [n \in 1..(3 * (conv_blocks - 1)) |->
                        Layer(AutoConvName(uid + n), "Conv3D", NoWeights)]
                \o <<Layer(AutoOtherName(Name_dropout, 1), "Other", NoWeights),
                     Layer(Name_flair, "Conv3D", NoWeights),
                     Layer(Name_t2, "Conv3D", NoWeights),
                     Layer(Name_t1, "Conv3D", NoWeights)>>,
                "init")
    IN [kind |-> "new", layers |-> ls, compiled |-> AllLayers(ls)]

(* [l for l in net.layers if 'conv' in l.name], as layer positions *)
ConvNamed(net) ==
    SetToSeq({k \in DOMAIN net.layers : Contains(CONV, net.layers[k].name)})

(* the layers whose class is Conv3D, whatever their name *)
Conv3DLayers(net) ==
    SetToSeq({k \in DOMAIN net.layers : net.layers[k].cls = "Conv3D"})

RECURSIVE InsertBy(_, _, _)
(* Insert k into the list s, sorted by key, after the entries that do not
   compare greater: what a stable sort does. *)
InsertBy(key, s, k) ==
    IF Len(s) = 0 THEN <<k>>
    ELSE IF key[s[Len(s)]] <= key[k] THEN Append(s, k)
    ELSE Append(InsertBy(key, SubSeq(s, 1, Len(s) - 1), k), s[Len(s)])

RECURSIVE StableSortBy(_, _)
StableSortBy(key, s) ==
    IF Len(s) = 0 THEN <<>>
    ELSE InsertBy(key, StableSortBy(key, SubSeq(s, 1, Len(s) - 1)), s[Len(s)])

(* int(l.name[7:]) of the layers named 'conv...' *)
SuffixKey(net) ==
    [k \in SeqRange(ConvNamed(net)) |-> ParseInt(From7(net.layers[k].name))]

(* the decimal strings compared as strings: '10' < '2' *)
RECURSIVE CharsLess(_, _)
CharsLess(a, b) ==
    IF Len(a) = 0 THEN Len(b) > 0
    ELSE IF Len(b) = 0 THEN FALSE
    ELSE IF DigitVal(a[1]) # DigitVal(b[1]) THEN DigitVal(a[1]) < DigitVal(b[1])
    ELSE CharsLess(Tail(a), Tail(b))

LexKey(net) ==
    [k \in SeqRange(ConvNamed(net)) |->
        Cardinality({j \in SeqRange(ConvNamed(net)) :
                        CharsLess(From7(net.layers[j].name), From7(net.layers[k].name))})]

(* sorted by name as text instead of by number *)
SortedConv_lexical(net) == StableSortBy(LexKey(net), ConvNamed(net))

(* sorted([l for l in net.layers if 'conv' in l.name],
          cmp=lambda l1, l2: int(l1.name[7:]) - int(l2.name[7:]))  (98-101, 362-365, 374-377) *)
SortedConv(net) == StableSortBy(SuffixKey(net), ConvNamed(net))

(* for l_to, l_from in zip(to_layers, from_layers):
       l_to.set_weights(l_from.get_weights())
   zip stops at the shorter list; the lists hold layer positions. *)
CopyWeights(to, from, to_layers, from_layers) ==
    LET n == Min2(Len(to_layers), Len(from_layers))
    IN [to EXCEPT !.layers =
         [k \in DOMAIN to.layers |->
            IF \E j \in 1..n : to_layers[j] = k
            THEN LET j == CHOOSE m \in 1..n :
                            /\ to_layers[m] = k
                            /\ \A i \in 1..n : to_layers[i] = k => i <= m
                 IN [to.layers[k] EXCEPT !.w = from.layers[from_layers[j]].w]
            ELSE to.layers[k]]]

(* the weights of the Conv3D layers, in model order *)
ConvWeights(net) ==
    LET IsConv3D(l) == l.cls = "Conv3D"
        convs == SelectSeq(net.layers, IsConv3D)
    IN [n \in DOMAIN convs |-> convs[n].w]

(* For the history kept with a stored volume: which network predicted it. *)
Producer(net) == [kind |-> net.kind, conv |-> ConvWeights(net)]

(* The ROI network loaded at 350-351; heads is its number of outputs. *)
RoiNet(heads) ==
    [kind |-> "roi", heads |-> heads,
     layers |-> WithTokens(<<Layer(AutoConvName(1), "Conv3D", NoWeights)>>, "roi"),
     compiled |-> {}]

(* net.compile(...): the layers trainable now are the ones a fit updates *)
Compile(net) == [net EXCEPT !.compiled = AllLayers(net.layers)]

(* net.fit(...): every compiled-trainable layer that has weights moves on *)
Fit(net, epochs) ==
    [net EXCEPT !.layers =
        [k \in DOMAIN net.layers |->
            IF k \in net.compiled /\ net.layers[k].cls # "Other"
            THEN [net.layers[k] EXCEPT !.w.v = @ + epochs]
            ELSE net.layers[k]]]

----------------------------------------------------------------------------
(* test_network (src/test_brats2017.py:174-235)                            *)

(* np.argmax of one row of scores: the first index holding the maximum, 0-based *)
ArgMax(row) ==
    (CHOOSE k \in 1..Len(row) :
        /\ \A j \in 1..Len(row) : row[k] >= row[j]
        /\ \A j \in 1..(k - 1) : row[j] < row[k]) - 1

ArgMaxRows(head) == [r \in DOMAIN head |-> ArgMax(head[r])]

(* p[0].rsplit('/')[-2] and '/'.join(p[0].rsplit('/')[:-1]) for patient k *)
PName(k) == "P" \o FormatInt(k)
DataPath == "/data"
PatientPath(k) == DataPath \o "/" \o PName(k)

OutputName(sufix, filename) ==
    IF filename # NoneV THEN filename ELSE "deep-brats17.test." \o sufix

OutputPath(k, outputname) == PatientPath(k) \o "/" \o outputname \o ".nii.gz"
RoiPath(k, outputname) == PatientPath(k) \o "/" \o outputname \o ".roi.nii.gz"

(* load_nii, load_model and open succeed on the paths that exist *)
Loadable(fs, path) == path \in DOMAIN fs

(* the variant rounds down *)
TestSteps_floor(test_samples, batch_size) == test_samples \div batch_size

(* -(-test_samples / batch_size), Python 2 integer division *)
TestSteps(test_samples, batch_size) == -((-test_samples) \div batch_size)

(* get_mask_voxels(roi): the coordinates of the mask, in array order *)
get_mask_voxels(mask) == SetToSeq(mask)

(* image[x, y, z] = tumor if is_roi else y_pred (229); the variant writes
   the class of the first head whatever the network *)
ReconLabel_tumor(is_roi, tumor, y_pred) == tumor

ReconLabel(is_roi, tumor, y_pred) == IF is_roi THEN tumor ELSE y_pred

(* Scatter a row-indexed label list at the centers into a zero volume. *)
Scatter(centers, rows) ==
    [v \in Voxels |->
        IF \E r \in DOMAIN centers : centers[r] = v
        THEN rows[CHOOSE r \in DOMAIN centers : centers[r] = v]
        ELSE 0]

(* What a stored volume file holds: the labels and, as history, the network
   whose prediction produced them. *)
VolFile(vol, by) == [vol |-> vol, by |-> by]
NoNet == [kind |-> "none", conv |-> <<>>]
NoImage == VolFile(ZeroVolume, NoNet)

(* 182-185: the stored result is used when load_nii of the output volume and
   of the ROI volume both succeed; the variant looks at the output only *)
Cached_output_only(fs, outputname_path, roiname) == Loadable(fs, outputname_path)

Cached(fs, outputname_path, roiname) ==
    Loadable(fs, outputname_path) /\ Loadable(fs, roiname)

(* The call.  fs: files; net: [kind, conv]; k: patient; mask: nonzero voxels
   of p[0]; pred: what predict_generator returns, a sequence of heads, each a
   sequence of score rows, one per center; failAt: the load or save that
   raises, or "none".  The result says how the call ended. *)
test_network(fs, net, k, mask, sufix, filename, pred, failAt) ==
    LET outputname == OutputName(sufix, filename)
        outputname_path == OutputPath(k, outputname)
        roiname == RoiPath(k, outputname)
        centers == get_mask_voxels(mask)
        is_list == Len(pred) > 1
        tumor == ArgMaxRows(pred[1])
        is_roi == ~is_list
        y_pred == ArgMaxRows(pred[Len(pred)])
        roi == Scatter(centers, tumor)
        raw == Scatter(centers,
                 [r \in DOMAIN centers |-> ReconLabel(is_roi, tumor[r], y_pred[r])])
        image == get_biggest_region(raw, is_roi)
        by == Producer(net)
        base == [outputname |-> outputname, outputname_path |-> outputname_path,
                 roiname |-> roiname, net |-> by, patient |-> k,
                 centers |-> centers, pred |-> pred, is_roi |-> is_roi]
        unasked == [base EXCEPT !.pred = <<>>]   \* the network was not asked
    IN IF Cached(fs, outputname_path, roiname)
       THEN [ok |-> TRUE, files |-> fs, image |-> fs[outputname_path],
             call |-> unasked @@ [predicted |-> FALSE, raw |-> ZeroVolume,
                               roi |-> ZeroVolume, image |-> fs[outputname_path].vol,
                               ended |-> "cached"]]
       ELSE IF failAt = "load_input"
       THEN [ok |-> FALSE, files |-> fs, image |-> NoImage,
             call |-> unasked @@ [predicted |-> FALSE, raw |-> ZeroVolume,
                               roi |-> ZeroVolume, image |-> ZeroVolume,
                               ended |-> "load_input"]]
       ELSE IF Len(centers) = 0
       THEN \* np.stack(centers, axis=1) of an empty list raises ValueError (210)
            [ok |-> FALSE, files |-> fs, image |-> NoImage,
             call |-> base @@ [predicted |-> TRUE, raw |-> ZeroVolume,
                               roi |-> ZeroVolume, image |-> ZeroVolume,
                               ended |-> "no_centers"]]
       ELSE IF failAt = "save_roi"
       THEN [ok |-> FALSE, files |-> fs, image |-> NoImage,
             call |-> base @@ [predicted |-> TRUE, raw |-> ZeroVolume,
                               roi |-> roi, image |-> ZeroVolume,
                               ended |-> "save_roi"]]
       ELSE IF failAt = "save_out"
       THEN [ok |-> FALSE,
             files |-> (roiname :> VolFile(roi, by)) @@ fs,
             image |-> NoImage,
             call |-> base @@ [predicted |-> TRUE, raw |-> raw,
                               roi |-> roi, image |-> image,
                               ended |-> "save_out"]]
       ELSE [ok |-> TRUE,
             files |-> (outputname_path :> VolFile(image, by)) @@
                       (roiname :> VolFile(roi, by)) @@ fs,
             image |-> VolFile(image, by),
             call |-> base @@ [predicted |-> TRUE, raw |-> raw,
                               roi |-> roi, image |-> image,
                               ended |-> "written"]]

----------------------------------------------------------------------------
(* Predictions.  A prediction is a sequence of heads, each a sequence of   *)
(* score rows, one row per center.  The rows here are one-hot.             *)

OneHot(c, n) == [j \in 1..n |-> IF j = c + 1 THEN 1 ELSE 0]

(* the class counts of the heads: tumor, core, enhancing (249-251 of the
   cross-validation script); the ROI network has one or two binary outputs *)
HeadClasses(net) ==
    IF net.kind = "roi" THEN [h \in 1..net.heads |-> 2]
    ELSE IF net.kind = "seq" THEN <<num_classes>>
    ELSE <<2, 3, num_classes>>

(* cls[r][h]: the class head h gives row r *)
PredOf(net, cls) ==
    [h \in DOMAIN HeadClasses(net) |->
        [r \in DOMAIN cls |-> OneHot(cls[r][h], HeadClasses(net)[h])]]

(* main: a network answers the same for every center: the ROI network
   background or tumor, the three-branch network class 1 on every head *)
MainPreds(net, n) ==
    {PredOf(net, [r \in 1..n |-> [h \in DOMAIN HeadClasses(net) |-> c]]) :
        c \in IF net.kind = "roi" THEN {0, 1} ELSE {1}}

----------------------------------------------------------------------------
(* main of the test script (src/test_brats2017.py:325-453)                 *)

(* options_s = 'e%d.E%d.D%d.' % (epochs, net_epochs, down_factor) (343) *)
options_s(epochs) ==
    "e" \o FormatInt(epochs) \o ".E" \o FormatInt(net_epochs)
        \o ".D" \o FormatInt(down_factor) \o "."

(* outputname = 'deep-brats17.test.' + options_s + 'domain' (370) *)
DomainName(epochs) == "deep-brats17.test." \o options_s(epochs) \o "domain"

(* os.path.join(patient_path, p_name + '.nii.gz') (358) *)
OrigPath(k) == PatientPath(k) \o "/" \o PName(k) \o ".nii.gz"

(* os.path.join(patient_path, outputname + '.nii.gz') (371) *)
DomainPath(k, epochs) == PatientPath(k) \o "/" \o DomainName(epochs) \o ".nii.gz"

(* net_new_name (380) *)
NetNewName(k, epochs) ==
    DataPath \o "/" \o "domain-exp-brats2017." \o options_s(epochs) \o PName(k) \o ".mdl"

(* roi_name, mask_name, image_name, rate_name (394-397) *)
PklKinds == <<"roi", "mask", "image", "rate">>
PklName(k, what) == DataPath \o "/" \o PName(k) \o "." \o what \o ".pkl"

Patients == 1..NumPatients
TestFailPoints == {"none", "load_input", "save_roi", "save_out"}

AdaptIdle(uid) ==
    [d_cached |-> FALSE, new_loaded |-> FALSE, data |-> {}, train_num |-> 0,
     selected |-> FALSE, train |-> <<>>, train_centers |-> <<>>, conv_uid |-> uid,
     net_orig_conv_layers |-> <<>>, net_new_conv_layers |-> <<>>]

TLIdle ==
    [e |-> 0, centers |-> <<>>, y |-> <<>>, conv_data |-> <<>>,
     net_domain_conv_layers |-> <<>>, net_conv_layers |-> <<>>]

NoCall ==
    [outputname |-> "", outputname_path |-> "", roiname |-> "", net |-> NoNet,
     patient |-> 0, centers |-> <<>>, pred |-> <<>>, is_roi |-> FALSE,
     predicted |-> FALSE, raw |-> ZeroVolume, roi |-> ZeroVolume,
     image |-> ZeroVolume, ended |-> "none"]

(* The uncaught exception: main ends, patient pidx has failed. *)
Crash(at) ==
    /\ pc' = "crashed"
    /\ trace' = [trace EXCEPT ![pidx] = at]

(* 357-367: the original result, from its file or from the original network *)
LoadOriginal ==
    /\ pc = "load_o"
    /\ UNCHANGED <<pidx, env, net_new, image_r, image_d,
                   dsc_results_o, dsc_results_d, final_dsc>>
    /\ adapt' = AdaptIdle(adapt.conv_uid)
    /\ tl' = TLIdle
    /\ fitlog' = <<>>
    /\ IF Loadable(files, OrigPath(pidx))
       THEN /\ image_o' = files[OrigPath(pidx)]
            /\ pc' = "load_d"
            /\ trace' = [trace EXCEPT ![pidx] = "running"]
            /\ UNCHANGED <<files, net_orig, lastCall>>
       ELSE \/ /\ Crash("load_model")
               /\ UNCHANGED <<files, net_orig, image_o, lastCall>>
            \/ \E failAt \in TestFailPoints :
               \E pred \in MainPreds(LoadPrimary, Cardinality(env.mask[pidx])) :
                 LET res == test_network(files, LoadPrimary, pidx, env.mask[pidx],
                                         "original", PName(pidx), pred, failAt)
                 IN /\ net_orig' = LoadPrimary
                    /\ files' = res.files
                    /\ lastCall' = res.call
                    /\ image_o' = res.image
                    /\ IF res.ok
                       THEN /\ pc' = "load_d"
                            /\ trace' = [trace EXCEPT ![pidx] = "running"]
                       ELSE Crash("test_original")

(* 369-377: the domain result, from its file, or the adaptation starts *)
LoadDomain ==
    /\ pc = "load_d"
    /\ UNCHANGED <<pidx, env, files, net_new, image_o, image_r, tl, fitlog,
                   dsc_results_o, dsc_results_d, final_dsc, lastCall>>
    /\ IF Loadable(files, DomainPath(pidx, env.epochs))
       THEN /\ image_d' = files[DomainPath(pidx, env.epochs)]
            /\ adapt' = [adapt EXCEPT !.d_cached = TRUE]
            /\ pc' = "dsc"
            /\ UNCHANGED <<net_orig, trace>>
       ELSE \/ /\ Crash("load_model")
               /\ UNCHANGED <<net_orig, image_d, adapt>>
            \/ /\ net_orig' = LoadPrimary
               /\ adapt' = [adapt EXCEPT !.net_orig_conv_layers = SortedConv(LoadPrimary)]
               /\ pc' = "load_new"
               /\ UNCHANGED <<image_d, trace>>

(* 380-384: the secondary model, from its file if there is one *)
LoadNew ==
    /\ pc = "load_new"
    /\ UNCHANGED <<pidx, env, files, net_orig, image_o, image_r, image_d, tl,
                   fitlog, dsc_results_o, dsc_results_d, final_dsc, lastCall, trace>>
    /\ IF Loadable(files, NetNewName(pidx, env.epochs))
       THEN /\ net_new' = files[NetNewName(pidx, env.epochs)]
            /\ adapt' = [adapt EXCEPT
                            !.new_loaded = TRUE,
                            !.net_new_conv_layers =
                                ConvNamed(files[NetNewName(pidx, env.epochs)])]
            /\ pc' = "transfer"
       ELSE /\ pc' = "roi"
            /\ UNCHANGED <<net_new, adapt>>

(* clip_to_roi: the bounding box of a mask *)
BoundingBox(mask) ==
    {v \in Voxels : /\ \E u \in mask : u <= v
                    /\ \E u \in mask : u >= v}

NonZero(vol) == {v \in Voxels : vol[v] # 0}

(* 385-392: the tumor ROI of the ROI network, and the data clipped to it *)
TestRoi ==
    /\ pc = "roi"
    /\ UNCHANGED <<pidx, env, net_orig, net_new, image_o, image_d, tl, fitlog,
                   dsc_results_o, dsc_results_d, final_dsc>>
    /\ \E failAt \in TestFailPoints \cup {"load_norm_list"} :
       \E pred \in MainPreds(RoiNet(env.roi_heads), Cardinality(env.mask[pidx])) :
         LET res == test_network(files, RoiNet(env.roi_heads), pidx, env.mask[pidx],
                                 "tumor", DomainName(env.epochs), pred,
                                 IF failAt = "load_norm_list" THEN "none" ELSE failAt)
             roi == NonZero(res.image.vol) \cap NonZero(image_o.vol)
             mask == IF Cardinality(roi) > 0 THEN roi ELSE NonZero(res.image.vol)
         IN /\ files' = res.files
            /\ lastCall' = res.call
            /\ image_r' = res.image
            /\ IF ~res.ok
               THEN /\ Crash("test_roi")
                    /\ UNCHANGED adapt
               ELSE IF failAt = "load_norm_list"
               THEN /\ Crash("load_norm_list")
                    /\ UNCHANGED adapt
               ELSE IF mask = {}
               THEN \* clip_to_roi of an empty mask has no bounding box
                    /\ Crash("clip_to_roi")
                    /\ UNCHANGED adapt
               ELSE /\ adapt' = [adapt EXCEPT !.data = BoundingBox(mask)]
                    /\ pc' = "cache"
                    /\ UNCHANGED trace

(* 312, 311: the ROI of candidate n zoomed to the shape of the base ROI, and
   the zoom rate that does it; both are told apart by their candidate here *)
im_roi(n) == [zoomed |-> n]
zoom_rate(n) == [of |-> n]

(* 314: if nu_rank > best_rank; the variant also takes an equal rank *)
BetterRank_or_equal(nu_rank, best_rank) == nu_rank >= best_rank

BetterRank(nu_rank, best_rank) == nu_rank > best_rank

(* get_best_roi (300-322): the first case with the greatest rank.  rank[n]
   is the SSIM of case n, an integer here; best_rank starts below every rank
   and the other results start as None, 0 here. *)
RECURSIVE BestUpTo(_, _)
BestUpTo(rank, n) ==
    IF n = 0 THEN [best_rank |-> -1, best_image |-> 0,
                   best_roi |-> im_roi(0), best_rate |-> zoom_rate(0)]
    ELSE LET b == BestUpTo(rank, n - 1)
         IN IF BetterRank(rank[n], b.best_rank)
            THEN [best_rank |-> rank[n], best_image |-> n,
                  best_roi |-> im_roi(n), best_rate |-> zoom_rate(n)]
            ELSE b

get_best_roi(rank) == BestUpTo(rank, Len(rank)).best_image

Ranks == [1..NumTrain -> {0, 1}]

(* what the four pickles hold: the training case, and for the zoomed ROI and
   the rate the shape of the data they were zoomed to *)
PklContent(what, case, data) ==
    IF what \in {"roi", "rate"} THEN [case |-> case, data |-> data]
    ELSE [case |-> case, data |-> {}]

(* the variant does not write over an artifact that is there *)
RECURSIVE DumpFirst_keep(_, _, _, _, _)
DumpFirst_keep(fs, k, n, case, data) ==
    IF n = 0 THEN fs
    ELSE DumpFirst_keep(fs, k, n - 1, case, data)
         @@ (PklName(k, PklKinds[n]) :> PklContent(PklKinds[n], case, data))

RECURSIVE DumpFirst(_, _, _, _, _)
(* pickle.dump of the first n of the four artifacts (407-410) *)
DumpFirst(fs, k, n, case, data) ==
    IF n = 0 THEN fs
    ELSE (PklName(k, PklKinds[n]) :> PklContent(PklKinds[n], case, data))
         @@ DumpFirst(fs, k, n - 1, case, data)

AllPickled(fs, k) == \A n \in DOMAIN PklKinds : Loadable(fs, PklName(k, PklKinds[n]))

(* 393-414: the reference training case, from the four pickles or chosen now *)
PrepareReference ==
    /\ pc = "cache"
    /\ UNCHANGED <<pidx, env, net_orig, net_new, image_o, image_r, image_d, tl,
                   fitlog, dsc_results_o, dsc_results_d, final_dsc, lastCall>>
    /\ IF AllPickled(files, pidx)
       THEN /\ adapt' = [adapt EXCEPT
                            !.train_num = files[PklName(pidx, "roi")].case,
                            !.train = [w \in SeqRange(PklKinds) |-> files[PklName(pidx, w)]]]
            /\ pc' = "seed"
            /\ UNCHANGED <<files, trace>>
       ELSE \/ /\ Crash("get_best_roi")
               /\ UNCHANGED <<files, adapt>>
            \/ \E rank \in Ranks :
               \E dumped \in 0..Len(PklKinds) :
                 LET train_num == get_best_roi(rank)
                 IN /\ files' = DumpFirst(files, pidx, dumped, train_num, adapt.data)
                    /\ IF dumped < Len(PklKinds)
                       THEN /\ Crash("pickle_dump")
                            /\ UNCHANGED adapt
                       ELSE /\ adapt' = [adapt EXCEPT
                                    !.train_num = train_num,
                                    !.selected = TRUE,
                                    !.train = [w \in SeqRange(PklKinds) |->
                                                  PklContent(w, train_num, adapt.data)]]
                            /\ pc' = "seed"
                            /\ UNCHANGED trace

(* 416-424: the secondary network, seeded from the primary one, and the
   candidate centers of the zoomed training case *)
CreateAndSeed ==
    /\ pc = "seed"
    /\ UNCHANGED <<pidx, env, files, net_orig, image_o, image_r, image_d, tl,
                   fitlog, dsc_results_o, dsc_results_d, final_dsc, lastCall, trace>>
    /\ LET made == create_new_network(adapt.conv_uid)
       IN /\ net_new' = CopyWeights(made, net_orig,
                                    ConvNamed(made), adapt.net_orig_conv_layers)
          /\ adapt' = [adapt EXCEPT
                          !.conv_uid = @ + 3 * (conv_blocks - 1),
                          !.net_new_conv_layers = ConvNamed(made),
                          !.train_centers = SetToSeq(adapt.train["rate"].data)]
    /\ pc' = "tl_prep"

----------------------------------------------------------------------------
(* transfer_learning (77-171)                                              *)

HeadNames == {Name_core, Name_tumor, Name_enhancing}

(* 104-106; the variant freezes nothing *)
FreezeNonDense_none(net) == net

FreezeNonDense(net) ==
    [net EXCEPT !.layers =
        [k \in DOMAIN net.layers |->
            IF net.layers[k].cls # "Dense"
            THEN [net.layers[k] EXCEPT !.trainable = FALSE]
            ELSE net.layers[k]]]

(* the variant leaves the intermediate layers as they are when the heads
   are switched on *)
SetDenseTrainable_heads_only(net, heads) ==
    [net EXCEPT !.layers =
        [k \in DOMAIN net.layers |->
            IF net.layers[k].cls = "Dense"
            THEN [net.layers[k] EXCEPT !.trainable =
                    IF net.layers[k].name \in HeadNames THEN heads
                    ELSE IF heads THEN @ ELSE TRUE]
            ELSE net.layers[k]]]

(* 147-152 when heads = FALSE, 158-163 when heads = TRUE *)
SetDenseTrainable(net, heads) ==
    [net EXCEPT !.layers =
        [k \in DOMAIN net.layers |->
            IF net.layers[k].cls = "Dense"
            THEN [net.layers[k] EXCEPT !.trainable =
                    IF net.layers[k].name \in HeadNames THEN heads ELSE ~heads]
            ELSE net.layers[k]]]

(* 98-101: net_conv_layers, sorted by name as text in the variant *)
TLNetConvLayers_lexical(net) == SortedConv_lexical(net)

TLNetConvLayers(net) == SortedConv(net)

(* 142: for e in range(epochs), after the body of epoch e; the variant runs
   the body once more *)
AfterFitB_extra(e, epochs) == IF e + 1 <= epochs THEN "tl_domain" ELSE "tl_transfer"

AfterFitB(e, epochs) == IF e + 1 < epochs THEN "tl_domain" ELSE "tl_transfer"

Perms(s) ==
    {p \in [DOMAIN s -> SeqRange(s)] : \A a, b \in DOMAIN s : a # b => p[a] # p[b]}

(* the variant leaves out a last entry that starts an incomplete stride *)
EveryNth_whole(s, d) == [j \in 1..(Len(s) \div d) |-> s[(j - 1) * d + 1]]

(* s[::d] *)
EveryNth(s, d) == [j \in 1..((Len(s) + d - 1) \div d) |-> s[(j - 1) * d + 1]]

(* the label of the zoomed training mask at a center *)
TrainLabel(case, c) == (c + case) % num_classes

(* the variant counts the core head from y > 1 and y > 2 *)
LabelHeads_late_core(l) ==
    <<OneHot(IF l # 0 THEN 1 ELSE 0, 2),
      OneHot((IF l > 1 THEN 1 ELSE 0) + (IF l > 2 THEN 1 ELSE 0), 3),
      OneHot(l, 5)>>

(* 121-134: the three one-hot heads of a label *)
LabelHeads(l) ==
    <<OneHot(IF l # 0 THEN 1 ELSE 0, 2),
      OneHot((IF l > 0 THEN 1 ELSE 0) + (IF l > 1 THEN 1 ELSE 0), 3),
      OneHot(l, 5)>>

(* the layers whose weights decide what net.predict returns *)
AllWeights(net) == [k \in DOMAIN net.layers |-> net.layers[k].w]

(* 96-141 *)
TLPrepare ==
    /\ pc = "tl_prep"
    /\ UNCHANGED <<pidx, env, files, net_new, image_o, image_r, image_d, adapt,
                   dsc_results_o, dsc_results_d, final_dsc, lastCall, trace>>
    /\ net_orig' = FreezeNonDense(net_orig)
    /\ \E perm \in Perms(adapt.train_centers) :
         LET centers == EveryNth(perm, down_factor)
         IN tl' = [e |-> 0,
                   centers |-> centers,
                   y |-> [j \in DOMAIN centers |->
                            LabelHeads(TrainLabel(adapt.train_num, centers[j]))],
                   conv_data |-> [by |-> AllWeights(net_new),
                                  input |-> adapt.train["roi"]],
                   net_domain_conv_layers |-> ConvNamed(net_new),
                   net_conv_layers |-> TLNetConvLayers(net_orig)]
    /\ fitlog' = <<>>
    /\ pc' = IF env.epochs > 0 THEN "tl_domain" ELSE "tl_transfer"

(* 143-146 *)
TLDomainFit ==
    /\ pc = "tl_domain"
    /\ UNCHANGED <<pidx, env, files, net_orig, image_o, image_r, image_d, adapt,
                   tl, dsc_results_o, dsc_results_d, final_dsc, lastCall, trace>>
    /\ net_new' = Fit(net_new, 1)
    /\ fitlog' = Append(fitlog,
                    [step |-> "domain", net |-> "net_domain", e |-> tl.e,
                     x |-> adapt.data, y |-> tl.conv_data, epochs |-> 1,
                     trainable |-> net_new.compiled])
    /\ pc' = "tl_fitA"

(* 147-157 *)
TLFitA ==
    /\ pc = "tl_fitA"
    /\ UNCHANGED <<pidx, env, files, net_new, image_o, image_r, image_d, adapt,
                   tl, dsc_results_o, dsc_results_d, final_dsc, lastCall, trace>>
    /\ LET net == Compile(SetDenseTrainable(net_orig, FALSE))
       IN /\ net_orig' = Fit(net, net_epochs)
          /\ fitlog' = Append(fitlog,
                          [step |-> "A", net |-> "net", e |-> tl.e,
                           x |-> tl.centers, y |-> tl.y, epochs |-> net_epochs,
                           trainable |-> net.compiled])
    /\ pc' = "tl_fitB"

(* 158-168, and the loop test of 142 *)
TLFitB ==
    /\ pc = "tl_fitB"
    /\ UNCHANGED <<pidx, env, files, net_new, image_o, image_r, image_d, adapt,
                   dsc_results_o, dsc_results_d, final_dsc, lastCall, trace>>
    /\ LET net == Compile(SetDenseTrainable(net_orig, TRUE))
       IN /\ net_orig' = Fit(net, net_epochs)
          /\ fitlog' = Append(fitlog,
                          [step |-> "B", net |-> "net", e |-> tl.e,
                           x |-> tl.centers, y |-> tl.y, epochs |-> net_epochs,
                           trainable |-> net.compiled])
    /\ tl' = [tl EXCEPT !.e = @ + 1]
    /\ pc' = AfterFitB(tl.e, env.epochs)

(* 170-171 *)
TLTransfer ==
    /\ pc = "tl_transfer"
    /\ UNCHANGED <<pidx, env, files, net_new, image_o, image_r, image_d, adapt,
                   tl, dsc_results_o, dsc_results_d, final_dsc, lastCall, trace>>
    /\ net_orig' = CopyWeights(net_orig, net_new,
                               tl.net_conv_layers, tl.net_domain_conv_layers)
    /\ fitlog' = Append(fitlog,
                    [step |-> "transfer", net |-> "net", e |-> tl.e,
                     x |-> <<>>, y |-> <<>>, epochs |-> 0, trainable |-> {}])
    /\ pc' = "save_new"

----------------------------------------------------------------------------

(* 427: net_new.save(net_new_name) *)
SaveNew ==
    /\ pc = "save_new"
    /\ UNCHANGED <<pidx, env, net_orig, net_new, image_o, image_r, image_d, adapt,
                   tl, fitlog, dsc_results_o, dsc_results_d, final_dsc, lastCall>>
    /\ \/ /\ Crash("save_model")
          /\ UNCHANGED files
       \/ /\ files' = (NetNewName(pidx, env.epochs) :> net_new) @@ files
          /\ pc' = "transfer"
          /\ UNCHANGED trace

(* 429-431: the weights of the secondary model go into the primary one *)
TransferWeights ==
    /\ pc = "transfer"
    /\ UNCHANGED <<pidx, env, files, net_new, image_o, image_r, image_d, adapt,
                   tl, fitlog, dsc_results_o, dsc_results_d, final_dsc, lastCall, trace>>
    /\ net_orig' = CopyWeights(net_orig, net_new,
                               adapt.net_orig_conv_layers, adapt.net_new_conv_layers)
    /\ pc' = "retest"

(* 373-383, 430-431: the primary model that a run has at 433 when it loads
   the secondary model from its file *)
PrimaryFromSaved(saved) ==
    CopyWeights(LoadPrimary, saved, SortedConv(LoadPrimary), ConvNamed(saved))

(* 433: the second reconstruction pass *)
Retest ==
    /\ pc = "retest"
    /\ UNCHANGED <<pidx, env, net_orig, net_new, image_o, image_r, adapt, tl,
                   fitlog, dsc_results_o, dsc_results_d, final_dsc>>
    /\ \E failAt \in TestFailPoints :
       \E pred \in MainPreds(net_orig, Cardinality(env.mask[pidx])) :
         LET res == test_network(files, net_orig, pidx, env.mask[pidx],
                                 options_s(env.epochs) \o "domain", NoneV, pred, failAt)
         IN /\ files' = res.files
            /\ lastCall' = res.call
            /\ image_d' = res.image
            /\ IF res.ok
               THEN /\ pc' = "dsc"
                    /\ UNCHANGED trace
               ELSE Crash("test_domain")

(* the ground truth of patient k *)
Gt(k) == [v \in Voxels |-> IF v = 1 THEN 0 ELSE Min2(k * (v - 1), num_classes - 1)]

(* dsc_seg(a, b), kept as the fraction 2|a & b| / (|a| + |b|) *)
dsc_seg(l, a, b) ==
    [label |-> l, num |-> 2 * Cardinality(a \cap b), den |-> Cardinality(a) + Cardinality(b)]

(* check_dsc (23-27) *)
check_dsc(gt, image) ==
    LET labels == SetToSeq({gt[v] : v \in Voxels})
    IN [n \in 1..(Len(labels) - 1) |->
          dsc_seg(labels[n + 1],
                  {v \in Voxels : gt[v] = labels[n + 1]},
                  {v \in Voxels : image[v] = labels[n + 1]})]

(* 435-447, and the step of the loop of 352 *)
CheckDsc ==
    /\ pc = "dsc"
    /\ UNCHANGED <<env, files, net_orig, net_new, image_o, image_r, image_d, adapt,
                   tl, fitlog, final_dsc, lastCall>>
    /\ \/ /\ Crash("check_dsc")
          /\ UNCHANGED <<pidx, dsc_results_o, dsc_results_d>>
       \/ /\ dsc_results_o' = Append(dsc_results_o, check_dsc(Gt(pidx), image_o.vol))
          /\ dsc_results_d' = Append(dsc_results_d, check_dsc(Gt(pidx), image_d.vol))
          /\ trace' = [trace EXCEPT ![pidx] = "completed"]
          /\ IF pidx < NumPatients
             THEN /\ pidx' = pidx + 1
                  /\ pc' = "load_o"
             ELSE /\ pc' = "final"
                  /\ UNCHANGED pidx

(* [dsc[i] for dsc in results if len(dsc) > i] for i in range(3) (450-451) *)
Aggregate(results) ==
    [i \in 0..2 |->
        LET having == SetToSeq({n \in DOMAIN results : Len(results[n]) > i})
        IN [j \in DOMAIN having |-> results[having[j]][i + 1]]]

(* 449-453 *)
Final ==
    /\ pc = "final"
    /\ UNCHANGED <<pidx, env, files, net_orig, net_new, image_o, image_r, image_d,
                   adapt, tl, fitlog, dsc_results_o, dsc_results_d, lastCall, trace>>
    /\ final_dsc' = [o |-> Aggregate(dsc_results_o), d |-> Aggregate(dsc_results_d)]
    /\ pc' = "done"

----------------------------------------------------------------------------
(* The files an earlier run of the script may have left for a patient.     *)

Earlier == [kind |-> "earlier", conv |-> <<>>]
EarlierVolume == VolFile([v \in Voxels |-> 1], Earlier)

(* a secondary model saved by an earlier process *)
SavedSecondary ==
    LET made == create_new_network(0)
    IN [made EXCEPT !.layers =
          [k \in DOMAIN made.layers |->
             IF made.layers[k].cls = "Other" THEN made.layers[k]
             ELSE [made.layers[k] EXCEPT !.w.base = "saved"]]]

Scenarios ==
    { {},
      {"o", "o_roi"},
      {"o", "o_roi", "mdl"},
      {"o", "o_roi", "roi", "mask", "image", "rate"},
      {"o", "o_roi", "roi"},
      {"o", "o_roi", "d", "d_roi", "mdl", "roi", "mask", "image", "rate"} }

LeftPath(k, what, epochs) ==
    CASE what = "o" -> OrigPath(k)
      [] what = "o_roi" -> RoiPath(k, PName(k))
      [] what = "d" -> DomainPath(k, epochs)
      [] what = "d_roi" -> RoiPath(k, DomainName(epochs))
      [] what = "mdl" -> NetNewName(k, epochs)
      [] OTHER -> PklName(k, what)

LeftContent(what) ==
    CASE what \in {"o", "o_roi", "d", "d_roi"} -> EarlierVolume
      [] what = "mdl" -> SavedSecondary
      [] OTHER -> PklContent(what, 1, Voxels)

LeftFiles(k, scenario, epochs) ==
    [path \in {LeftPath(k, w, epochs) : w \in scenario} |->
        LeftContent(CHOOSE w \in scenario : LeftPath(k, w, epochs) = path)]

Init ==
    /\ pc = "load_o"
    /\ pidx = 1
    /\ \E epochs \in 0..MaxEpochs, heads \in {1, 2} :
         env = [epochs |-> epochs, roi_heads |-> heads,
                mask |-> [k \in Patients |-> Voxels]]
    /\ \E scenario \in Scenarios :
         files = LeftFiles(1, scenario, env.epochs)
    /\ net_orig = LoadPrimary
    /\ net_new = create_new_network(0)
    /\ image_o = NoImage
    /\ image_r = NoImage
    /\ image_d = NoImage
    /\ adapt = AdaptIdle(0)
    /\ tl = TLIdle
    /\ fitlog = <<>>
    /\ dsc_results_o = <<>>
    /\ dsc_results_d = <<>>
    /\ final_dsc = <<>>
    /\ lastCall = NoCall
    /\ trace = [k \in Patients |-> "pending"]

Next ==
    \/ LoadOriginal
    \/ LoadDomain
    \/ LoadNew
    \/ TestRoi
    \/ PrepareReference
    \/ CreateAndSeed
    \/ TLPrepare
    \/ TLDomainFit
    \/ TLFitA
    \/ TLFitB
    \/ TLTransfer
    \/ SaveNew
    \/ TransferWeights
    \/ Retest
    \/ CheckDsc
    \/ Final

Spec == Init /\ [][Next]_vars

----------------------------------------------------------------------------
(* The test loop of the cross-validation script                            *)
(* (src/train_test_brats2017.py:295-349), for one patient.                 *)

(* the Sequential network of 148-163: one softmax output *)
SeqNet ==
    [kind |-> "seq",
     layers |-> WithTokens(<<Layer(AutoConvName(1), "Conv3D", NoWeights),
                             Layer(AutoDenseName(1), "Dense", NoWeights)>>, "seq"),
     compiled |-> {1, 2}]

(* sufix (104-109) with the default options; s_s says which network *)
cv_sufix(sequential) ==
    ".D500" \o (IF sequential THEN ".s" ELSE ".f")
        \o ".p13.c3c3c3c3c3.n32n32n32n32n32.d256.e50.pad_valid."

(* image[x, y, z] = y_pred (335) *)
CvLabel(sequential, tumor, y_pred) == y_pred

cv_test(fs, net, k, mask, sequential, pred, failAt) ==
    LET outputname == "deep-brats17" \o cv_sufix(sequential) \o "test"
        outputname_path == OutputPath(k, outputname)
        roiname == RoiPath(k, outputname)
        centers == get_mask_voxels(mask)
        tumor == ArgMaxRows(pred[1])
        y_pred == ArgMaxRows(pred[Len(pred)])
        roi == Scatter(centers, tumor)
        raw == Scatter(centers,
                 [r \in DOMAIN centers |-> CvLabel(sequential, tumor[r], y_pred[r])])
        image == get_biggest_region(raw, FALSE)
        by == Producer(net)
        base == [outputname |-> outputname, outputname_path |-> outputname_path,
                 roiname |-> roiname, net |-> by, patient |-> k,
                 centers |-> centers, pred |-> pred, is_roi |-> FALSE]
        unasked == [base EXCEPT !.pred = <<>>]
        written == IF sequential THEN fs ELSE (roiname :> VolFile(roi, by)) @@ fs
    IN IF Loadable(fs, outputname_path)
       THEN [ok |-> TRUE, files |-> fs,
             call |-> unasked @@ [predicted |-> FALSE, raw |-> ZeroVolume,
                               roi |-> ZeroVolume, image |-> fs[outputname_path].vol,
                               ended |-> "cached"]]
       ELSE IF failAt = "load_input"
       THEN [ok |-> FALSE, files |-> fs,
             call |-> unasked @@ [predicted |-> FALSE, raw |-> ZeroVolume,
                               roi |-> ZeroVolume, image |-> ZeroVolume,
                               ended |-> "load_input"]]
       ELSE IF Len(centers) = 0
       THEN [ok |-> FALSE, files |-> fs,
             call |-> base @@ [predicted |-> TRUE, raw |-> ZeroVolume,
                               roi |-> ZeroVolume, image |-> ZeroVolume,
                               ended |-> "no_centers"]]
       ELSE IF failAt = "save_roi" /\ ~sequential
       THEN [ok |-> FALSE, files |-> fs,
             call |-> base @@ [predicted |-> TRUE, raw |-> ZeroVolume,
                               roi |-> roi, image |-> ZeroVolume,
                               ended |-> "save_roi"]]
       ELSE IF failAt = "save_out"
       THEN [ok |-> FALSE, files |-> written,
             call |-> base @@ [predicted |-> TRUE, raw |-> raw,
                               roi |-> roi, image |-> image,
                               ended |-> "save_out"]]
       ELSE [ok |-> TRUE,
             files |-> (outputname_path :> VolFile(image, by)) @@ written,
             call |-> base @@ [predicted |-> TRUE, raw |-> raw,
                               roi |-> roi, image |-> image,
                               ended |-> "written"]]

----------------------------------------------------------------------------
(* Reconstruction on its own: one call of test_network, or one pass of the *)
(* cross-validation test loop, on every mask, network and prediction.      *)

ReconMasks == {{}, Voxels, Voxels \ {2}}

(* the rows a network may answer: per head a class, the last head one of
   the classes 0, 1, 2 *)
ReconRows(net) ==
    IF net.kind = "roi" THEN [1..net.heads -> {0, 1}]
    ELSE IF net.kind = "seq" THEN {<<c>> : c \in {0, 1, 2}}
    ELSE {<<a, 0, c>> : a \in {0, 1}, c \in {0, 1, 2}}

ReconPreds(net, n) == {PredOf(net, cls) : cls \in [1..n -> ReconRows(net)]}

ReconName == "deep-brats17.test.recon"

ReconLeft ==
    { <<>>,
      (OutputPath(1, ReconName) :> EarlierVolume),
      (RoiPath(1, ReconName) :> EarlierVolume),
      (OutputPath(1, ReconName) :> EarlierVolume) @@ (RoiPath(1, ReconName) :> EarlierVolume),
      (OutputPath(1, "deep-brats17" \o cv_sufix(FALSE) \o "test") :> EarlierVolume) }

InitRecon ==
    /\ pc = "recon"
    /\ pidx = 1
    /\ \E mask \in ReconMasks, net \in {LoadPrimary, RoiNet(1), RoiNet(2), SeqNet} :
         env = [epochs |-> 0, roi_heads |-> 0, mask |-> [k \in Patients |-> mask],
                net |-> net]
    /\ files \in ReconLeft
    /\ net_orig = LoadPrimary
    /\ net_new = create_new_network(0)
    /\ image_o = NoImage
    /\ image_r = NoImage
    /\ image_d = NoImage
    /\ adapt = AdaptIdle(0)
    /\ tl = TLIdle
    /\ fitlog = <<>>
    /\ dsc_results_o = <<>>
    /\ dsc_results_d = <<>>
    /\ final_dsc = <<>>
    /\ lastCall = NoCall
    /\ trace = [k \in Patients |-> "pending"]

(* test_network(net, p, batch_size, patch_size, sufix='recon') *)
ReconTestNetwork ==
    /\ pc = "recon"
    /\ env.net.kind # "seq"
    /\ UNCHANGED <<pidx, env, net_orig, net_new, image_o, image_r, adapt, tl,
                   fitlog, dsc_results_o, dsc_results_d, final_dsc>>
    /\ \E failAt \in TestFailPoints :
       \E pred \in ReconPreds(env.net, Cardinality(env.mask[1])) :
         LET res == test_network(files, env.net, 1, env.mask[1], "recon", NoneV,
                                 pred, failAt)
         IN /\ files' = res.files
            /\ lastCall' = res.call @@ [script |-> "test"]
            /\ image_d' = res.image
            /\ IF res.ok
               THEN /\ pc' = "recon_done"
                    /\ UNCHANGED trace
               ELSE Crash("test_network")

(* the body of the loop of 295 of the cross-validation script *)
ReconCvTest ==
    /\ pc = "recon"
    /\ env.net.kind \in {"seq", "orig"}
    /\ UNCHANGED <<pidx, env, net_orig, net_new, image_o, image_r, image_d, adapt,
                   tl, fitlog, dsc_results_o, dsc_results_d, final_dsc>>
    /\ \E failAt \in TestFailPoints :
       \E pred \in ReconPreds(env.net, Cardinality(env.mask[1])) :
         LET res == cv_test(files, env.net, 1, env.mask[1], env.net.kind = "seq",
                            pred, failAt)
         IN /\ files' = res.files
            /\ lastCall' = res.call @@ [script |-> "cv"]
            /\ IF res.ok
               THEN /\ pc' = "recon_done"
                    /\ UNCHANGED trace
               ELSE Crash("cv_test")

(* the same call of test_network once more, right after it has returned; the
   network gives an answer only when the call asks it *)
ReconRepeat ==
    /\ pc = "recon_done"
    /\ lastCall.script = "test"
    /\ UNCHANGED <<pidx, env, net_orig, net_new, image_r, adapt, tl,
                   fitlog, dsc_results_o, dsc_results_d, final_dsc>>
    /\ \E failAt \in TestFailPoints :
       \E pred \in (IF Cached(files, lastCall.outputname_path, lastCall.roiname)
                    THEN {<<>>}
                    ELSE ReconPreds(env.net, Cardinality(env.mask[1]))) :
         LET res == test_network(files, env.net, 1, env.mask[1], "recon", NoneV,
                                 pred, failAt)
         IN /\ files' = res.files
            /\ lastCall' = res.call @@ [script |-> "test"]
            /\ image_o' = image_d
            /\ image_d' = res.image
            /\ IF res.ok
               THEN /\ pc' = "recon_again"
                    /\ UNCHANGED trace
               ELSE Crash("test_network")

NextRecon ==
    \/ ReconTestNetwork
    \/ ReconCvTest
    \/ ReconRepeat

SpecRecon == InitRecon /\ [][NextRecon]_vars

----------------------------------------------------------------------------
(* The functions of the pipeline on their own.  env holds the arguments,   *)
(* lastCall the result; the variables of main stay as they are.            *)

MainIdle ==
    /\ pidx = 1
    /\ files = <<>>
    /\ net_orig = LoadPrimary
    /\ net_new = create_new_network(0)
    /\ image_o = NoImage
    /\ image_r = NoImage
    /\ image_d = NoImage
    /\ adapt = AdaptIdle(0)
    /\ tl = TLIdle
    /\ fitlog = <<>>
    /\ dsc_results_o = <<>>
    /\ dsc_results_d = <<>>
    /\ final_dsc = <<>>
    /\ trace = [k \in Patients |-> "pending"]

main_vars == <<pidx, files, net_orig, net_new, image_o, image_r, image_d, adapt,
               tl, fitlog, dsc_results_o, dsc_results_d, final_dsc>>

(* get_best_roi on every list of ranks *)
MaxCandidates == 4
MaxRank == 2

InitBest ==
    /\ pc = "best"
    /\ \E n \in 0..MaxCandidates : \E rank \in [1..n -> 0..MaxRank] :
          env = [rank |-> rank]
    /\ lastCall = NoCall
    /\ MainIdle

(* the call; with no candidate, best_name[0] of 321 raises *)
BestRoi ==
    /\ pc = "best"
    /\ UNCHANGED <<main_vars, env>>
    /\ IF Len(env.rank) = 0
       THEN /\ Crash("get_best_roi")
            /\ UNCHANGED lastCall
       ELSE /\ lastCall' = BestUpTo(env.rank, Len(env.rank))
            /\ pc' = "best_done"
            /\ UNCHANGED trace

NextBest == BestRoi

SpecBest == InitBest /\ [][NextBest]_vars

----------------------------------------------------------------------------
(* The folds of the cross-validation script (119-126).  nfold_cross_validation *)
(* is a generator of utils: the roster is shuffled and cut into n           *)
(* contiguous groups; fold i tests group i and splits the rest into         *)
(* validation (val_data of it) and training.                                *)

MaxRoster == 5
MaxFolds == 5
val_data_inverse == 4     \* val_data=0.25 (121)

(* the patients before group i of n, in a roster of len patients *)
GroupStart(i, n, len) == ((i - 1) * len) \div n

(* the patients left when the group shuffled[a+1..b] is the test set; the
   variant leaves the whole roster *)
Remainder_all(shuffled, a, b) == shuffled

Remainder(shuffled, a, b) ==
    SubSeq(shuffled, 1, a) \o SubSeq(shuffled, b + 1, Len(shuffled))

(* what the generator yields as fold i of n *)
nfold_cross_validation(shuffled, n, i) ==
    LET a == GroupStart(i, n, Len(shuffled))
        b == GroupStart(i + 1, n, Len(shuffled))
        rest == Remainder(shuffled, a, b)
        val_len == Len(rest) \div val_data_inverse
    IN [train |-> SubSeq(rest, val_len + 1, Len(rest)),
        val |-> SubSeq(rest, 1, val_len),
        test |-> SubSeq(shuffled, a + 1, b)]

(* xrange(folds) (121); the variant stops one short *)
xrange_short(n) == [j \in 1..(n - 1) |-> j - 1]

xrange(n) == [j \in 1..n |-> j - 1]

(* izip(generator of n folds, xrange(folds)): as long as the shorter one *)
FoldsTaken(n, folds) == Min2(n, Len(xrange(folds)))

InitFolds ==
    /\ pc = "folds"
    /\ \E len \in 1..MaxRoster, folds \in 1..MaxFolds :
       \E shuffled \in Perms([j \in 1..len |-> j]) :
          env = [patients |-> len, folds |-> folds, shuffled |-> shuffled]
    /\ lastCall = [folds |-> <<>>]
    /\ MainIdle

(* more folds than patients *)
FoldsInvalid ==
    /\ pc = "folds"
    /\ env.folds > env.patients
    /\ Crash("InvalidFoldCountError")
    /\ UNCHANGED <<main_vars, env, lastCall>>

(* 123: the loop takes the next fold *)
FoldNext ==
    /\ pc = "folds"
    /\ env.folds <= env.patients
    /\ Len(lastCall.folds) < FoldsTaken(env.folds, env.folds)
    /\ lastCall' = [folds |-> Append(lastCall.folds,
                        nfold_cross_validation(env.shuffled, env.folds,
                                               Len(lastCall.folds) + 1))]
    /\ UNCHANGED <<main_vars, env, pc, trace>>

(* 123: the loop ends *)
FoldsEnd ==
    /\ pc = "folds"
    /\ env.folds <= env.patients
    /\ Len(lastCall.folds) = FoldsTaken(env.folds, env.folds)
    /\ pc' = "folds_done"
    /\ UNCHANGED <<main_vars, env, lastCall, trace>>

NextFolds ==
    \/ FoldsInvalid
    \/ FoldNext
    \/ FoldsEnd

SpecFolds == InitFolds /\ [][NextFolds]_vars

----------------------------------------------------------------------------
(* The training coordinates (136-137).  get_cnn_centers is a function of   *)
(* data_creation; with balanced=True the candidates are parted by label    *)
(* and the count of the smallest part is drawn from every part, without    *)
(* replacement.                                                            *)

SampleVox == 4
SampleVoxels == 1..SampleVox
SampleLabels == {0, 1, 2}

(* the candidates of a label *)
Pool(labels, mask, c) == {v \in mask : labels[v] = c}

Observed(labels, mask) == {labels[v] : v \in mask}

MinorityCount(labels, mask) ==
    CHOOSE n \in {Cardinality(Pool(labels, mask, c)) : c \in Observed(labels, mask)} :
        \A c \in Observed(labels, mask) : n <= Cardinality(Pool(labels, mask, c))

(* the ways to draw k coordinates of a pool; the variant may draw one twice *)
Draws_with_replacement(pool, k) == [1..k -> pool]

Draws(pool, k) ==
    {d \in [1..k -> pool] : \A a, b \in 1..k : a # b => d[a] # d[b]}

(* what is drawn for label c: nothing when the label is not observed *)
DrawsOf(labels, mask, c) ==
    IF Pool(labels, mask, c) = {} THEN {<<>>}
    ELSE Draws(Pool(labels, mask, c), MinorityCount(labels, mask))

InitSample ==
    /\ pc = "sample"
    /\ \E labels \in [SampleVoxels -> SampleLabels] :
       \E mask \in {SampleVoxels, SampleVoxels \ {1}, {}} :
          env = [labels |-> labels, mask |-> mask, balanced |-> TRUE]
    /\ lastCall = [centers |-> <<>>]
    /\ MainIdle

(* get_cnn_centers(..., balanced=True) *)
GetCnnCenters ==
    /\ pc = "sample"
    /\ UNCHANGED <<main_vars, env>>
    /\ IF env.mask = {}
       THEN /\ Crash("EmptyMaskError")
            /\ UNCHANGED lastCall
       ELSE \E d0 \in DrawsOf(env.labels, env.mask, 0) :
            \E d1 \in DrawsOf(env.labels, env.mask, 1) :
            \E d2 \in DrawsOf(env.labels, env.mask, 2) :
               /\ lastCall' = [centers |-> d0 \o d1 \o d2]
               /\ pc' = "sampled"
               /\ UNCHANGED trace

NextSample == GetCnnCenters

SpecSample == InitSample /\ [][NextSample]_vars

----------------------------------------------------------------------------
(* Region cleaning on its own, on every small label volume: binary volumes *)
(* in ROI mode, as the one-output network gives them, labelled ones else.  *)

CleanVox == 5
CleanVoxels == 1..CleanVox

InitClean ==
    /\ pc = "clean"
    /\ \E is_roi \in BOOLEAN :
       \E image \in [CleanVoxels -> IF is_roi THEN {0, 1} ELSE {0, 1, 2}] :
          env = [image |-> image, is_roi |-> is_roi]
    /\ lastCall = [image |-> [v \in CleanVoxels |-> 0]]
    /\ MainIdle

(* image = get_biggest_region(image, is_roi) (231) *)
CleanRegion ==
    /\ pc = "clean"
    /\ lastCall' = [image |-> get_biggest_region(env.image, env.is_roi)]
    /\ pc' = "cleaned"
    /\ UNCHANGED <<main_vars, env, trace>>

NextClean == CleanRegion

SpecClean == InitClean /\ [][NextClean]_vars

----------------------------------------------------------------------------
(* The batch stream behind fit_generator and predict_generator (261-290,   *)
(* 197-207 of the test script): a generator of batches read ahead through  *)
(* a queue of max_q_size=queue batches by the one worker of the library;   *)
(* the training or prediction loop takes steps batches.  Batches are       *)
(* numbered as the generator yields them.                                  *)

MaxDepth == 3
MaxSteps == 4

(* the worker generates a batch when the queue has room; the variant lets
   one more in *)
HasRoom_one_more(queue, depth) == Len(queue) <= depth

HasRoom(queue, depth) == Len(queue) < depth

InitStream ==
    /\ pc = "stream"
    /\ \E depth \in 1..MaxDepth, steps \in 1..MaxSteps :
          env = [queue |-> depth, steps |-> steps]
    /\ lastCall = [q |-> <<>>, produced |-> 0, consumed |-> <<>>]
    /\ MainIdle

(* the worker: next(generator), then put *)
Produce ==
    /\ pc = "stream"
    /\ HasRoom(lastCall.q, env.queue)
    /\ lastCall' = [lastCall EXCEPT !.produced = @ + 1,
                                    !.q = Append(@, lastCall.produced + 1)]
    /\ UNCHANGED <<main_vars, env, pc, trace>>

(* the loop: get the next batch, steps times *)
Consume ==
    /\ pc = "stream"
    /\ Len(lastCall.consumed) < env.steps
    /\ Len(lastCall.q) > 0
    /\ lastCall' = [lastCall EXCEPT !.q = Tail(@),
                                    !.consumed = Append(@, Head(lastCall.q))]
    /\ UNCHANGED <<main_vars, env, pc, trace>>

(* the loop has had its steps: the worker is stopped *)
StreamEnd ==
    /\ pc = "stream"
    /\ Len(lastCall.consumed) = env.steps
    /\ pc' = "stream_done"
    /\ UNCHANGED <<main_vars, env, lastCall, trace>>

NextStream ==
    \/ Produce
    \/ Consume
    \/ StreamEnd

SpecStream == InitStream /\ [][NextStream]_vars

----------------------------------------------------------------------------
(* The label heads of transfer_learning (120-134) on every short list of   *)
(* labels of the training mask.                                            *)

MaxLabels == 3

InitHeads ==
    /\ pc = "heads"
    /\ \E n \in 1..MaxLabels : \E y \in [1..n -> 0..(num_classes - 1)] :
          env = [y |-> y]
    /\ lastCall = [y |-> <<>>]
    /\ MainIdle

(* 121-134 *)
SplitHeads ==
    /\ pc = "heads"
    /\ lastCall' = [y |-> [j \in DOMAIN env.y |-> LabelHeads(env.y[j])]]
    /\ pc' = "heads_done"
    /\ UNCHANGED <<main_vars, env, trace>>

NextHeads == SplitHeads

SpecHeads == InitHeads /\ [][NextHeads]_vars

----------------------------------------------------------------------------
(* Patch extraction (117-119).  get_patches is a function of               *)
(* data_manipulation.generate_features: the patch of the given size        *)
(* centered at a coordinate, zero where it leaves the volume.  One axis    *)
(* here; the volume is padded with zeros and the patch is cut from it.     *)

PatchVox == 3
MaxWidth == 3

Zeros(n) == [j \in 1..n |-> 0]

(* the volume with before and after voxels added at its ends; the variant
   repeats the edge voxel in them *)
Padded_edge(volume, before, after) ==
    [j \in 1..before |-> volume[1]] \o volume \o [j \in 1..after |-> volume[Len(volume)]]

Padded(volume, before, after) == Zeros(before) \o volume \o Zeros(after)

(* the patch of width size centered at voxel center of the volume *)
get_patch(volume, center, size) ==
    LET patch_half == size \div 2
        new_image == Padded(volume, patch_half, size - patch_half)
        new_center == center + patch_half
    IN SubSeq(new_image, new_center - patch_half, new_center + (size - patch_half) - 1)

InitPatch ==
    /\ pc = "patch"
    /\ \E volume \in [1..PatchVox -> {1, 2}] :
       \E center \in 1..PatchVox, size \in 1..MaxWidth :
          env = [volume |-> volume, center |-> center, size |-> size]
    /\ lastCall = [patch |-> <<>>]
    /\ MainIdle

(* get_patches(image, centers, patch_size) for one center *)
GetPatch ==
    /\ pc = "patch"
    /\ lastCall' = [patch |-> get_patch(env.volume, env.center, env.size)]
    /\ pc' = "patch_done"
    /\ UNCHANGED <<main_vars, env, trace>>

NextPatch == GetPatch

SpecPatch == InitPatch /\ [][NextPatch]_vars

----------------------------------------------------------------------------
(* The prediction steps of test_network (188-210; 304-322 of the           *)
(* cross-validation script).  load_patch_batch_generator_test is a         *)
(* generator of data_creation: it yields the patches of the centers in     *)
(* their order, batch_size at a time, the last batch with what is left.    *)

MaxMask == 5
MaxBatch == 3

(* the centers of batch j, counted from 1 *)
Batch(centers, batch_size, j) ==
    SubSeq(centers, (j - 1) * batch_size + 1, Min2(j * batch_size, Len(centers)))

InitSteps ==
    /\ pc = "count"
    /\ \E roi \in SUBSET (1..MaxMask), batch_size \in 1..MaxBatch :
          env = [roi |-> roi, batch_size |-> batch_size]
    /\ lastCall = [centers |-> <<>>, test_samples |-> 0, steps |-> 0,
                   taken |-> 0, rows |-> <<>>]
    /\ MainIdle

(* 188-196 *)
CountSteps ==
    /\ pc = "count"
    /\ lastCall' = [centers |-> get_mask_voxels(env.roi),
                    test_samples |-> Cardinality(env.roi),
                    steps |-> TestSteps(Cardinality(env.roi), env.batch_size),
                    taken |-> 0, rows |-> <<>>]
    /\ pc' = "predict"
    /\ UNCHANGED <<main_vars, env, trace>>

(* 197-207: one step of predict_generator; a row per center of the batch *)
PredictBatch ==
    /\ pc = "predict"
    /\ lastCall.taken < lastCall.steps
    /\ lastCall' = [lastCall EXCEPT
                       !.taken = @ + 1,
                       !.rows = @ \o Batch(lastCall.centers, env.batch_size,
                                           lastCall.taken + 1)]
    /\ UNCHANGED <<main_vars, env, pc, trace>>

(* 207-210: the steps are done; np.stack of no centers raises *)
PredictEnd ==
    /\ pc = "predict"
    /\ lastCall.taken = lastCall.steps
    /\ IF Len(lastCall.centers) = 0
       THEN Crash("no_centers")
       ELSE pc' = "predicted" /\ UNCHANGED trace
    /\ UNCHANGED <<main_vars, env, lastCall>>

NextSteps ==
    \/ CountSteps
    \/ PredictBatch
    \/ PredictEnd

SpecSteps == InitSteps /\ [][NextSteps]_vars

----------------------------------------------------------------------------
(* The downsampling of the training centers (114) on every short list of   *)
(* candidates and every factor: the candidates are the points of a box     *)
(* (423-424), in spatial order.                                            *)

MaxCenters == 5
MaxFactor == 3

InitDown ==
    /\ pc = "down"
    /\ \E n \in 0..MaxCenters, d_factor \in 1..MaxFactor :
          env = [train_centers |-> [j \in 1..n |-> j], d_factor |-> d_factor]
    /\ lastCall = [perm |-> <<>>, centers |-> <<>>]
    /\ MainIdle

(* centers = np.random.permutation(train_centers)[::d_factor] *)
Downsample ==
    /\ pc = "down"
    /\ \E perm \in Perms(env.train_centers) :
          lastCall' = [perm |-> perm, centers |-> EveryNth(perm, env.d_factor)]
    /\ pc' = "kept"
    /\ UNCHANGED <<main_vars, env, trace>>

NextDown == Downsample

SpecDown == InitDown /\ [][NextDown]_vars

----------------------------------------------------------------------------
(* Properties.                                                             *)

(* the call reconstructed a volume from several heads *)
CascadeCall ==
    /\ lastCall.ended \in {"written", "save_out"}
    /\ Len(lastCall.pred) > 1

Coarse(r) == ArgMax(lastCall.pred[1][r])
Fine(r) == ArgMax(lastCall.pred[Len(lastCall.pred)][r])

(* C1, as stated: in cascade reconstruction every sampled coordinate that the
   first head calls background and the last head calls foreground is
   background in the reconstructed label volume (the volume of line 229 of
   test_network, of line 335 of the cross-validation script). *)
C1_CoarseHeadGates ==
    CascadeCall =>
        \A r \in DOMAIN lastCall.centers :
            (Coarse(r) = 0 /\ Fine(r) # 0) => lastCall.raw[lastCall.centers[r]] = 0

(* C2, as stated: for a patient without a cached domain result, the domain
   result main holds and has stored at 435 was predicted, in the second call
   of test_network, by the primary model carrying the transferred weights. *)
C2_SecondPassPredicts ==
    (pc = "dsc" /\ ~adapt.d_cached) =>
        /\ lastCall.predicted
        /\ lastCall.outputname_path = DomainPath(pidx, env.epochs)
        /\ image_d.by = Producer(net_orig)
        /\ files[DomainPath(pidx, env.epochs)].by = Producer(net_orig)

(* the position of each layer of net named 'conv...' when these layers are
   put in the order of the numbers in their names *)
RankByNumber(net) ==
    LET named == SeqRange(ConvNamed(net))
        num == [k \in named |-> ParseInt(From7(net.layers[k].name))]
    IN [k \in named |-> Cardinality({j \in named : num[j] < num[k]}) + 1]

Seeded == pc \in {"tl_prep"}

(* C3, as stated: after seeding, every Conv3D layer of the secondary model,
   the last of each branch included, holds the weights of the primary model's
   convolutional layer of the same ordinal position, and none keeps the
   weights it was created with. *)
C3_EveryConvSeeded ==
    Seeded =>
        LET rank == RankByNumber(net_orig)
            convs == Conv3DLayers(net_new)
        IN \A n \in DOMAIN convs :
              /\ net_new.layers[convs[n]].w.base # "init"
              /\ \E k \in DOMAIN rank :
                    /\ rank[k] = n
                    /\ net_new.layers[convs[n]].w = net_orig.layers[k].w

(* the paired positions: the secondary layers named 'conv...' in model order
   against the primary ones in the order of their numbers *)
PairCount == Min2(Len(ConvNamed(net_new)), Len(ConvNamed(net_orig)))

Transferred ==
    \/ pc \in {"save_new", "retest"}
    \/ pc = "transfer" /\ ~adapt.new_loaded

(* C4: after the weight transfer, the k-th paired convolutional layer of the
   primary model holds the weights of the k-th of the secondary model, for
   every k, the pairs being those of the seeding: secondary layers in model
   order, primary layers by the number in their name, up to the shorter list. *)
C4_TransferByPosition ==
    Transferred =>
        LET rank == RankByNumber(net_orig)
            secondary == ConvNamed(net_new)
            paired == {k \in DOMAIN rank : rank[k] <= Len(secondary)}
        IN /\ \A k \in paired :
                 net_orig.layers[k].w = net_new.layers[secondary[rank[k]]].w
           /\ ~adapt.new_loaded =>
                 \A k \in paired :
                     /\ tl.net_conv_layers[rank[k]] = k
                     /\ adapt.net_orig_conv_layers[rank[k]] = k
                     /\ tl.net_domain_conv_layers[rank[k]] = secondary[rank[k]]
                     /\ adapt.net_new_conv_layers[rank[k]] = secondary[rank[k]]

(* transfer_learning has returned after two epochs and the primary model
   holds fitted weights of the secondary one in its tenth convolutional layer *)
C4_Witness ==
    /\ pc = "save_new"
    /\ env.epochs = 2
    /\ PairCount >= 10
    /\ \E k \in DOMAIN RankByNumber(net_orig) :
          /\ RankByNumber(net_orig)[k] = 10
          /\ net_orig.layers[k].w.v = 2
          /\ net_orig.layers[k].w = net_new.layers[ConvNamed(net_new)[10]].w

(* C5, as stated: after the weight transfer the primary and the secondary
   model hold the same weights in every convolutional layer, so that they
   give the same convolutional activations. *)
C5_RoundTrip ==
    Transferred => ConvWeights(net_orig) = ConvWeights(net_new)

(* the step the n-th fit of a transfer_learning call has to be *)
StepAt(n) == <<"domain", "A", "B">>[((n - 1) % 3) + 1]

TLRunning == pc \in {"tl_domain", "tl_fitA", "tl_fitB", "tl_transfer"}
TLReturned == pc \in {"save_new"}

(* C6: every outer epoch is domain fit (secondary model, 1 epoch), fit A,
   fit B (primary model, N epochs each), in this order, the primary fits all
   on the same patches; E epochs make E domain fits and 2E primary fits, and
   the weights are transferred once, after the last epoch. *)
C6_AlternatingLoop ==
    /\ \A n \in DOMAIN fitlog :
          IF fitlog[n].step = "transfer"
          THEN n = 3 * env.epochs + 1
          ELSE /\ n <= 3 * env.epochs
               /\ fitlog[n].step = StepAt(n)
               /\ fitlog[n].e = (n - 1) \div 3
               /\ fitlog[n].net = (IF StepAt(n) = "domain" THEN "net_domain" ELSE "net")
               /\ fitlog[n].epochs = (IF StepAt(n) = "domain" THEN 1 ELSE net_epochs)
               /\ StepAt(n) # "domain" =>
                     /\ fitlog[n].x = tl.centers
                     /\ fitlog[n].y = tl.y
    /\ TLRunning => Len(fitlog) = 3 * tl.e + (CASE pc = "tl_domain" -> 0
                                                [] pc = "tl_fitA" -> 1
                                                [] pc = "tl_fitB" -> 2
                                                [] OTHER -> 0)
    /\ TLReturned =>
          /\ Len(fitlog) = 3 * env.epochs + 1
          /\ fitlog[Len(fitlog)].step = "transfer"

(* a call with two outer epochs has returned: seven entries *)
C6_Witness ==
    /\ TLReturned
    /\ env.epochs = 2
    /\ Len(fitlog) = 7
    /\ fitlog[4].step = "domain"
    /\ fitlog[7].step = "transfer"

IntermediateDense(net) ==
    {k \in DOMAIN net.layers :
        net.layers[k].cls = "Dense" /\ net.layers[k].name \notin HeadNames}

HeadDense(net) ==
    {k \in DOMAIN net.layers :
        net.layers[k].cls = "Dense" /\ net.layers[k].name \in HeadNames}

(* C7: in every fit A the layers of the primary model that are trained are
   exactly its Dense layers not named tumor, core or enhancing. *)
C7_FitATrainsIntermediate ==
    \A n \in DOMAIN fitlog :
        fitlog[n].step = "A" => fitlog[n].trainable = IntermediateDense(net_orig)

(* a fit A has run and has moved the three intermediate layers only *)
C7_Witness ==
    /\ pc = "tl_fitB"
    /\ fitlog[Len(fitlog)].step = "A"
    /\ Cardinality(fitlog[Len(fitlog)].trainable) = 3
    /\ \A k \in DOMAIN net_orig.layers :
          net_orig.layers[k].w.v > 0 <=> k \in IntermediateDense(net_orig)

(* C8: in every fit B the layers of the primary model that are trained are
   exactly the heads tumor, core and enhancing, and the fit has the patches,
   the labels and the epoch count of the fit A before it. *)
C8_FitBTrainsHeads ==
    \A n \in DOMAIN fitlog :
        fitlog[n].step = "B" =>
            /\ fitlog[n].trainable = HeadDense(net_orig)
            /\ n > 1
            /\ fitlog[n - 1].step = "A"
            /\ fitlog[n].x = fitlog[n - 1].x
            /\ fitlog[n].y = fitlog[n - 1].y
            /\ fitlog[n].epochs = fitlog[n - 1].epochs

(* a fit B has run after a fit A, on at least one patch *)
C8_Witness ==
    /\ Len(fitlog) >= 3
    /\ fitlog[3].step = "B"
    /\ Cardinality(fitlog[3].trainable) = 3
    /\ Len(fitlog[3].x) > 0
    /\ net_orig.layers[CHOOSE k \in HeadDense(net_orig) : TRUE].w.v > 0

(* the loads and saves of the adaptation block (385-427) that are not caught *)
AdaptationFailures ==
    {"test_roi", "load_norm_list", "get_best_roi", "pickle_dump", "save_model"}

(* a later run takes these files for a finished adaptation (371, 382) *)
LeftAsAdapted(k) ==
    \/ Loadable(files, DomainPath(k, env.epochs))
    \/ Loadable(files, NetNewName(k, env.epochs))

(* C9, as stated: when a load or save of a patient's adaptation fails, no
   domain result and no secondary model stay behind for that patient, and
   the patient's result is the original prediction. *)
C9_NoPartialAdaptation ==
    \A k \in Patients :
        trace[k] \in AdaptationFailures =>
            /\ ~LeftAsAdapted(k)
            /\ image_d = image_o
            /\ pc # "crashed"

MainEnded == pc \in {"done", "crashed"}

(* C10, as stated: a failure on one patient leaves the later patients to be
   processed, and the aggregate is computed over the completed patients. *)
C10_SweepContinues ==
    MainEnded =>
        /\ \A k \in Patients : trace[k] # "pending"
        /\ pc = "done"
        /\ Len(dsc_results_o) = Cardinality({k \in Patients : trace[k] = "completed"})

(* a step that is a call of test_network *)
TestNetworkStep ==
    /\ pc \in {"recon", "recon_done"}
    /\ lastCall' # lastCall
    /\ lastCall'.script = "test"

(* the two files of the call's output name load before the call *)
BothStored == /\ Loadable(files, lastCall'.outputname_path)
              /\ Loadable(files, lastCall'.roiname)

Returned == pc' \in {"recon_done", "recon_again"}

C11_Step ==
    TestNetworkStep =>
        /\ lastCall'.predicted => ~BothStored
        /\ BothStored =>
              /\ Returned
              /\ ~lastCall'.predicted
              /\ files' = files
              /\ image_d' = files[lastCall'.outputname_path]
        /\ (Returned /\ ~BothStored) =>
              /\ lastCall'.predicted
              /\ Loadable(files', lastCall'.roiname)
              /\ Loadable(files', lastCall'.outputname_path)
              /\ files'[lastCall'.outputname_path] = image_d'
        /\ (Returned /\ pc = "recon_done") =>
              /\ ~lastCall'.predicted
              /\ image_d' = image_d

(* C11: a call of test_network that returns has predicted exactly when the
   output file or the ROI file of its output name did not load; with both
   files it returns the stored volume and writes nothing; when it predicts,
   both files are there when it returns, so the same call made again right
   away predicts nothing and returns the same volume. *)
C11_CacheShortCircuit == [][C11_Step]_vars

(* a call that predicted and stored a foreground voxel has been repeated,
   and the repeated call took the stored volume *)
C11_Witness ==
    /\ pc = "recon_again"
    /\ lastCall.ended = "cached"
    /\ image_d = image_o
    /\ image_d.by = Producer(env.net)
    /\ \E v \in Voxels : image_d.vol[v] # 0

(* C12: get_best_roi returns the case with the greatest rank, the first of
   them when several share it, with the ROI and the rate of that case. *)
C12_FirstMaximum ==
    pc = "best_done" =>
        LET rank == env.rank
            best == lastCall.best_image
        IN /\ best \in DOMAIN rank
           /\ \A n \in DOMAIN rank : rank[n] <= rank[best]
           /\ \A n \in 1..(best - 1) : rank[n] < rank[best]
           /\ lastCall.best_roi = im_roi(best)
           /\ lastCall.best_rate = zoom_rate(best)

(* three cases share the greatest rank, and the first of them, not the first
   of the list, is returned *)
C12_Witness ==
    /\ pc = "best_done"
    /\ Len(env.rank) = 4
    /\ env.rank[1] < env.rank[2]
    /\ env.rank[2] = env.rank[3]
    /\ env.rank[3] = env.rank[4]
    /\ lastCall.best_image = 2
    /\ lastCall.best_roi = im_roi(2)

(* a call has filled its label volume *)
Reconstructed == lastCall.ended \in {"written", "save_out"}

Sampled(v) == \E r \in DOMAIN lastCall.centers : lastCall.centers[r] = v

(* C13: in the label volume of a call, before and after the region
   cleaning, every voxel outside the sampled coordinates is 0, and before the
   cleaning every sampled voxel holds the argmax class of the prediction
   (of its last head) for that coordinate. *)
C13_OnlySampledWritten ==
    Reconstructed =>
        /\ \A v \in Voxels :
              ~Sampled(v) => (lastCall.raw[v] = 0 /\ lastCall.image[v] = 0)
        /\ \A r \in DOMAIN lastCall.centers :
              lastCall.raw[lastCall.centers[r]] =
                  ArgMax(lastCall.pred[Len(lastCall.pred)][r])

(* a cascade call on a mask that leaves voxel 2 out has written a class at
   a sampled voxel that its first head calls background *)
C13_Witness ==
    /\ Reconstructed
    /\ lastCall.ended = "written"
    /\ Len(lastCall.pred) > 1
    /\ ~Sampled(2)
    /\ lastCall.image[2] = 0
    /\ \E r \in DOMAIN lastCall.centers :
          /\ ArgMax(lastCall.pred[1][r]) = 0
          /\ lastCall.raw[lastCall.centers[r]] = 2
          /\ lastCall.image[lastCall.centers[r]] = 2

Roster == 1..env.patients

(* the patients of a list, and whether the list names none twice *)
NoneTwice(l) == Cardinality(SeqRange(l)) = Len(l)

(* C14: over the folds of a complete sweep every patient is in the test set
   of exactly one fold: the test sets together are the roster, and no two of
   them share a patient. *)
C14_TestedOnce ==
    pc = "folds_done" =>
        /\ UNION {SeqRange(lastCall.folds[i].test) : i \in DOMAIN lastCall.folds} = Roster
        /\ \A i \in DOMAIN lastCall.folds : NoneTwice(lastCall.folds[i].test)
        /\ \A i, j \in DOMAIN lastCall.folds :
              i # j => SeqRange(lastCall.folds[i].test) \cap
                       SeqRange(lastCall.folds[j].test) = {}

(* a sweep of three folds over four patients has ended *)
C14_Witness ==
    /\ pc = "folds_done"
    /\ env.patients = 4
    /\ Len(lastCall.folds) = 3
    /\ \E i \in DOMAIN lastCall.folds : Len(lastCall.folds[i].test) = 2

(* C15: in every fold the training, validation and test patients are
   pairwise disjoint and together are the roster. *)
C15_FoldPartitions ==
    \A i \in DOMAIN lastCall.folds :
        LET f == lastCall.folds[i]
        IN /\ SeqRange(f.train) \cap SeqRange(f.val) = {}
           /\ SeqRange(f.train) \cap SeqRange(f.test) = {}
           /\ SeqRange(f.val) \cap SeqRange(f.test) = {}
           /\ SeqRange(f.train) \cup SeqRange(f.val) \cup SeqRange(f.test) = Roster
           /\ NoneTwice(f.train \o f.val \o f.test)

(* a fold with patients in each of the three sets *)
C15_Witness ==
    \E i \in DOMAIN lastCall.folds :
        /\ Len(lastCall.folds[i].train) > 0
        /\ Len(lastCall.folds[i].val) > 0
        /\ Len(lastCall.folds[i].test) > 0

(* how many of the sampled coordinates have label c *)
SampledOf(c) ==
    Cardinality({j \in DOMAIN lastCall.centers : env.labels[lastCall.centers[j]] = c})

(* C16: balanced sampling gives every observed class the count of the
   smallest class, so the counts of two observed classes differ by at most
   one, and no coordinate is drawn twice. *)
C16_BalancedCounts ==
    pc = "sampled" =>
        /\ \A c \in Observed(env.labels, env.mask) :
              SampledOf(c) = MinorityCount(env.labels, env.mask)
        /\ \A c, d \in Observed(env.labels, env.mask) :
              SampledOf(c) - SampledOf(d) \in {-1, 0, 1}
        /\ NoneTwice(lastCall.centers)
        /\ SeqRange(lastCall.centers) \subseteq env.mask

(* three voxels of one class and one of another: one of each is drawn *)
C16_Witness ==
    /\ pc = "sampled"
    /\ env.mask = SampleVoxels
    /\ Cardinality(Pool(env.labels, env.mask, 0)) >= 3
    /\ Cardinality(Pool(env.labels, env.mask, 1)) = 0
    /\ Cardinality(Pool(env.labels, env.mask, 2)) = 1
    /\ Len(lastCall.centers) = 2

(* the voxels of label l before and after the cleaning *)
Before(l) == {v \in CleanVoxels : env.image[v] = l}
After(l) == {v \in CleanVoxels : lastCall.image[v] = l}

(* a run: consecutive voxels *)
IsRun(K) == \A a, b \in K : \A w \in a..b : w \in K

(* K is a whole connected component of S *)
IsComponent(K, S) ==
    /\ K # {}
    /\ K \subseteq S
    /\ IsRun(K)
    /\ \A v \in S \ K : \A u \in K : v # u + 1 /\ v # u - 1

(* C17: for every label, the cleaned volume keeps exactly the voxels of one
   largest connected component of that label and has 0 at the label's other
   voxels; background stays background. *)
C17_LargestComponentKept ==
    pc = "cleaned" =>
        /\ \A l \in {1, 2} :
              Before(l) # {} =>
                 /\ IsComponent(After(l), Before(l))
                 /\ \A K \in SUBSET Before(l) :
                       IsComponent(K, Before(l)) => Cardinality(K) <= Cardinality(After(l))
        /\ \A v \in CleanVoxels : lastCall.image[v] \in {0, env.image[v]}

(* components of two voxels and of one voxel of one label, the smaller one
   first: only the two voxels stay *)
C17_Witness ==
    /\ pc = "cleaned"
    /\ ~env.is_roi
    /\ env.image[1] = 1 /\ env.image[2] = 0
    /\ env.image[3] = 1 /\ env.image[4] = 1
    /\ env.image[5] = 2
    /\ Cardinality(Before(1)) = 3
    /\ After(1) = {3, 4}
    /\ After(2) = Before(2)

(* C18: the batches generated and not yet consumed are never more than the
   queue depth, a batch is generated only when the queue has room, and the
   batches are consumed in the order of their generation, none left out. *)
C18_BoundedQueue ==
    /\ Len(lastCall.q) <= env.queue
    /\ lastCall.produced - Len(lastCall.consumed) <= env.queue
    /\ lastCall.consumed \o lastCall.q = [n \in 1..lastCall.produced |-> n]

(* the queue is full, the worker waits, and the loop has taken batches *)
C18_Witness ==
    /\ pc = "stream"
    /\ env.queue = 2
    /\ Len(lastCall.q) = 2
    /\ lastCall.consumed = <<1, 2>>
    /\ ~ENABLED Produce

(* row is a one-hot vector of n entries with its 1 at index i (from 0) *)
OneAt(row, i, n) ==
    /\ DOMAIN row = 1..n
    /\ \A j \in 1..n : row[j] = (IF j = i + 1 THEN 1 ELSE 0)

(* C19: for a label y of 0..4 the three heads are one-hot: the binary one
   at min(y, 1) of 2, the core one at min(y, 2) of 3, the full one at y of 5;
   so the three agree on whether the voxel is foreground. *)
C19_OneHotHeads ==
    pc = "heads_done" =>
        \A j \in DOMAIN env.y :
            LET y == env.y[j]
                heads == lastCall.y[j]
            IN /\ Len(heads) = 3
               /\ OneAt(heads[1], Min2(y, 1), 2)
               /\ OneAt(heads[2], Min2(y, 2), 3)
               /\ OneAt(heads[3], y, 5)
               /\ (heads[1][1] = 1) = (heads[2][1] = 1)
               /\ (heads[2][1] = 1) = (heads[3][1] = 1)

(* the labels 0, 2 and 4 have been split *)
C19_Witness ==
    /\ pc = "heads_done"
    /\ env.y = <<0, 2, 4>>
    /\ lastCall.y[1] = << <<1, 0>>, <<1, 0, 0>>, <<1, 0, 0, 0, 0>> >>
    /\ lastCall.y[2] = << <<0, 1>>, <<0, 0, 1>>, <<0, 0, 1, 0, 0>> >>
    /\ lastCall.y[3] = << <<0, 1>>, <<0, 0, 1>>, <<0, 0, 0, 0, 1>> >>

(* the voxel of the volume under entry j of the patch *)
Under(j) == env.center - (env.size \div 2) + (j - 1)

(* C20: the patch of a coordinate inside the volume has exactly the
   requested size; its entries outside the volume are 0, the ones inside are
   the voxels of the volume under them. *)
C20_PatchShapeAndPadding ==
    pc = "patch_done" =>
        /\ Len(lastCall.patch) = env.size
        /\ \A j \in 1..env.size :
              IF Under(j) \in DOMAIN env.volume
              THEN lastCall.patch[j] = env.volume[Under(j)]
              ELSE lastCall.patch[j] = 0

(* a patch of three at the first voxel: one entry of padding, two of the
   volume *)
C20_Witness ==
    /\ pc = "patch_done"
    /\ env.center = 1
    /\ env.size = 3
    /\ lastCall.patch = <<0, env.volume[1], env.volume[2]>>

(* the weights behind a regression target: those of the Conv3D layers of
   the model that predicted it, in model order *)
TargetConv(target) ==
    [n \in DOMAIN Conv3DLayers(net_new) |-> target.by[Conv3DLayers(net_new)[n]]]

(* C21, as stated: in every domain sub-step the target the secondary model
   is fitted to is what the convolutional layers of the primary model give
   on the reference ROI. *)
C21_TargetIsPrimaryActivations ==
    TLRunning =>
        \A n \in DOMAIN fitlog :
            fitlog[n].step = "domain" =>
                /\ fitlog[n].y.input = adapt.train["roi"]
                /\ TargetConv(fitlog[n].y) = ConvWeights(net_orig)

(* the artifact of kind w stored for patient pidx, after the step *)
Stored(w) == files'[PklName(pidx, w)]

C22_Step ==
    (pc = "cache" /\ pc' # "cache") =>
        /\ AllPickled(files, pidx) =>
              /\ pc' = "seed"
              /\ ~adapt'.selected
              /\ files' = files
              /\ \A w \in SeqRange(PklKinds) : adapt'.train[w] = files[PklName(pidx, w)]
        /\ ~AllPickled(files, pidx) => (pc' = "crashed" \/ adapt'.selected)
        /\ (pc' = "seed" /\ adapt'.selected) =>
              /\ ~AllPickled(files, pidx)
              /\ adapt'.train_num \in 1..NumTrain
              /\ \A w \in SeqRange(PklKinds) :
                    /\ Loadable(files', PklName(pidx, w))
                    /\ Stored(w).case = adapt'.train_num
                    /\ Stored(w) = adapt'.train[w]
        /\ pc' = "seed" =>
              \A w1, w2 \in SeqRange(PklKinds) : Stored(w1).case = Stored(w2).case

(* C22: when the four artifacts of the patient all open, they are loaded and
   no reference is selected; when one does not, get_best_roi selects a
   training case and the four are written from it; after the step the four
   stored artifacts are of one training case. *)
C22_CacheConsistent == [][C22_Step]_vars

(* the second training case was selected and the four artifacts are its *)
C22_Witness ==
    /\ pc = "seed"
    /\ adapt.selected
    /\ adapt.train_num = 2
    /\ \A n \in DOMAIN PklKinds : files[PklName(pidx, PklKinds[n])].case = 2

(* the steps of the call are known *)
StepsCounted == pc \in {"predict", "predicted", "crashed"}

(* C23: the steps asked of the network are the number of ROI voxels over
   the batch size, rounded up: enough batches for every coordinate and not
   one more; with no ROI voxel they are 0; the rows predicted when the
   steps are done are one per coordinate, in the order of the coordinates. *)
C23_StepsAreCeiling ==
    /\ StepsCounted =>
          /\ lastCall.steps * env.batch_size >= lastCall.test_samples
          /\ (lastCall.steps - 1) * env.batch_size < lastCall.test_samples
          /\ lastCall.test_samples = Len(lastCall.centers)
          /\ lastCall.test_samples = 0 => lastCall.steps = 0
    /\ (StepsCounted /\ lastCall.taken = lastCall.steps) =>
          /\ Len(lastCall.rows) = Len(lastCall.centers)
          /\ lastCall.rows = lastCall.centers

(* five coordinates in batches of two: three steps, the last of one row *)
C23_Witness ==
    /\ pc = "predicted"
    /\ env.batch_size = 2
    /\ lastCall.test_samples = 5
    /\ lastCall.steps = 3
    /\ Len(lastCall.rows) = 5

(* C24: of n candidate centers the downsampling with factor d keeps the
   ceiling of n / d; the kept ones are candidates, none twice; they are every
   d-th entry of a permutation of the candidates, not of the candidates in
   their spatial order. *)
C24_DownsampleKeepsCeiling ==
    pc = "kept" =>
        LET n == Len(env.train_centers)
            d == env.d_factor
            kept == lastCall.centers
        IN /\ Len(kept) * d >= n
           /\ (Len(kept) - 1) * d < n
           /\ SeqRange(kept) \subseteq SeqRange(env.train_centers)
           /\ NoneTwice(kept)
           /\ Len(lastCall.perm) = n
           /\ SeqRange(lastCall.perm) = SeqRange(env.train_centers)
           /\ \A j \in DOMAIN kept : kept[j] = lastCall.perm[(j - 1) * d + 1]

(* of five candidates and factor 2, three are kept, and they are not the
   first, third and fifth in spatial order *)
C24_Witness ==
    /\ pc = "kept"
    /\ Len(env.train_centers) = 5
    /\ env.d_factor = 2
    /\ lastCall.centers = <<4, 2, 5>>

(* a step of main that calls test_network for the patient at hand, after
   a call for the same patient with another network *)
NextNetworkCall ==
    /\ lastCall' # lastCall
    /\ lastCall.patient = pidx
    /\ lastCall'.patient = pidx
    /\ lastCall'.net # lastCall.net

C25_Step ==
    NextNetworkCall =>
        /\ lastCall'.outputname_path # lastCall.outputname_path
        /\ lastCall'.roiname # lastCall.roiname
        /\ lastCall'.ended = "cached" =>
              files[lastCall'.outputname_path].by \in {lastCall'.net, Earlier}

(* C25, as stated: the calls of test_network that main makes for one
   patient with different networks have different output and ROI paths, and
   none returns the stored result of another network as its own. *)
C25_DistinctResultPaths == [][C25_Step]_vars

(* a step of transfer_learning before its final weight transfer *)
BeforeTransfer == pc \in {"tl_prep", "tl_domain", "tl_fitA", "tl_fitB"}

C26_Step ==
    BeforeTransfer =>
        /\ ConvWeights(net_orig') = ConvWeights(net_orig)
        /\ \A k \in DOMAIN net_orig.layers :
              net_orig'.layers[k].w # net_orig.layers[k].w =>
                  net_orig.layers[k].cls = "Dense"

(* C26: from the start of transfer_learning to the end of its loop no step
   changes the weights of a convolutional layer of the primary model; the
   layers its fits change are Dense layers. *)
C26_PrimaryConvFrozen == [][C26_Step]_vars

(* the loop has run two epochs: Dense layers of the primary model have been
   fitted twice and its convolutional weights are the loaded ones *)
C26_Witness ==
    /\ pc = "tl_transfer"
    /\ tl.e = 2
    /\ ConvWeights(net_orig) = ConvWeights(LoadPrimary)
    /\ \A k \in IntermediateDense(net_orig) \cup HeadDense(net_orig) :
          net_orig.layers[k].w.v = 2

(* the secondary model as persisted for the patient at hand *)
Persisted == files[NetNewName(pidx, env.epochs)]

(* C27, as stated: at the second reconstruction pass the weights of the
   primary model, convolutional and classifier, are those of a run that
   loads the persisted secondary model, whether this run loaded it or
   trained it. *)
C27_LoadEqualsRetrain ==
    pc = "retest" => AllWeights(net_orig) = AllWeights(PrimaryFromSaved(Persisted))

(* the labels behind the scores averaged as one value *)
LabelsOf(scores) == {scores[j].label : j \in DOMAIN scores}

(* C28, as stated: each of the three values of the final DSC, original and
   domain, averages scores of one and the same ground-truth label. *)
C28_SameLabelPerIndex ==
    pc = "done" =>
        \A i \in 0..2 :
            /\ Cardinality(LabelsOf(final_dsc.o[i])) <= 1
            /\ Cardinality(LabelsOf(final_dsc.d[i])) <= 1

====
